---- MODULE Spec2Model ----
(***************************************************************************)
(* Inference gateway (src/main.py): an HTTP handler that answers          *)
(* OpenAI-style chat-completion requests either with a local echo reply   *)
(* or by proxying them to one configured backend, and that keeps          *)
(* process-wide metrics counters.                                         *)
(*                                                                         *)
(* The server is http.server.HTTPServer (single-threaded): one request is *)
(* handled from start to end before the next one is accepted.  A handler  *)
(* that raises is abandoned by the server loop, which closes the          *)
(* connection and carries on.  A client may close its connection at any   *)
(* time; from then on a write to it raises (BrokenPipeError or             *)
(* ConnectionResetError), which no except clause of the handler catches.   *)
(*                                                                         *)
(* JSON values are tagged records: [t |-> "absent"], [t |-> "invalid"]    *)
(* (bytes that are not JSON), [t |-> "str", s |-> <<chars>>],             *)
(* [t |-> "num", n |-> k], [t |-> "list", items |-> <<...>>] and          *)
(* [t |-> "obj", ...fields].  Text is a sequence of characters, each a     *)
(* string: the character itself ("a", " ", "\t", "\n", "\r", "\f") or,     *)
(* for a character a TLA+ string cannot hold, its code point ("U+00A0").   *)
(*                                                                         *)
(* Latencies and total_latency_ms are fixed-point numbers counted in       *)
(* thousandths of a millisecond (1234 stands for 1.234 ms).                *)
(***************************************************************************)
EXTENDS Integers, Sequences, FiniteSets, TLC

\* ---------------------------------------------------------------------------
\* Bounds of the model
\* ---------------------------------------------------------------------------

\* chat-completion requests served in one run
MaxRequests == 2
\* entries of a request's messages list
MaxMsgs == 2
\* lines of an upstream streamed body
MaxLines == 2
\* clients that connect at the same time
MaxClients == 2

\* ---------------------------------------------------------------------------
\* Values
\* ---------------------------------------------------------------------------

NoValue == "<none>"
JAbsent == [t |-> "absent"]
JInvalid == [t |-> "invalid"]
\* Bytes nested deeper than json.loads can follow (some ten thousand open
\* brackets): `json` tells whether the brackets are closed again further on
\* (JSON text) or never are (not JSON).
JTooDeep(json) == [t |-> "deep", json |-> json]
JStr(s) == [t |-> "str", s |-> s]
JNum(n) == [t |-> "num", n |-> n]
JList(items) == [t |-> "list", items |-> items]

SeqsUpTo(S, n) == UNION {[1..k -> S] : k \in 0..n}

\* Text used for message contents: one word, and two words separated by a
\* tab.
Hi == <<"h", "i">>
AB == <<"a", "\t", "b">>

\* Entries of a messages list: a user message, a system message, a user
\* message whose content is a number, and an entry that is not an object.
Msg(role, content) == [t |-> "obj", role |-> role, content |-> content]
MsgEntries ==
    { Msg("user", JStr(AB)), Msg("system", JStr(Hi)), Msg("user", JNum(7)), JStr(Hi) }

\* The values of the messages field of a body that is a JSON object.
MessagesValues ==
    {JAbsent, JStr(Hi)} \cup {JList(items) : items \in SeqsUpTo(MsgEntries, MaxMsgs)}

StreamValues == {"absent", "true"}

ChatBody(messages, stream) == [t |-> "obj", messages |-> messages, stream |-> stream]

\* Request bodies: bytes that are not JSON, bytes nested too deep to parse,
\* a JSON list (valid JSON that is not an object), and JSON objects.
ChatBodies ==
    {JInvalid, JTooDeep(FALSE), JTooDeep(TRUE), JList(<<>>)}
        \cup {ChatBody(m, s) : m \in MessagesValues, s \in StreamValues}

\* Request header values ("<none>" when the header is not sent).
XRequestIdValues == {NoValue, "x-1"}
RequestIdValues == {NoValue, "r-1"}
Uuid4Values == {"uuid-1", "uuid-2"}

Headers(x, r) == [x_request_id |-> x, request_id |-> r]
HeaderSets == {Headers(x, r) : x \in XRequestIdValues, r \in RequestIdValues}

Methods == {"GET", "POST"}
Paths == {"/healthz", "/v1/models", "/metrics", "/v1/chat/completions", "/unknown"}

BackendUrls == {NoValue, "http://backend"}

\* (time.monotonic() - start) * 1000, in thousandths of a millisecond
LatencyValues == {4}

ChatPath == "/v1/chat/completions"

\* Backend replies.  usage token fields hold a number, a string, or are absent.
Usage(p, c) == [t |-> "obj", prompt_tokens |-> p, completion_tokens |-> c]
UsageValues ==
    {JAbsent, JStr(Hi), Usage(JNum(3), JNum(2)), Usage(JNum(3), JAbsent),
     Usage(JNum(-1), JNum(2)), Usage(JStr(Hi), JNum(2)), Usage(JNum(3), JStr(Hi))}
BackendData(id, usage) == [t |-> "obj", id |-> id, content |-> "ok", usage |-> usage]
BackendBodies ==
    {JInvalid, JList(<<>>), BackendData(NoValue, JAbsent)}
        \cup {BackendData("backend-id", u) : u \in UsageValues}

Timeout == [k |-> "timeout"]
ConnectError == [k |-> "request_error"]
Reply(status, body) == [k |-> "response", status |-> status, body |-> body]
BackendOutcomes ==
    {Timeout, ConnectError}
        \cup {Reply(200, b) : b \in BackendBodies}
        \cup {Reply(s, b) :
                s \in {400, 500},
                b \in {JInvalid, BackendData("backend-id", Usage(JNum(3), JNum(2)))}}

\* Upstream streamed bodies: the lines the backend produces, as the bytes
\* between two line ends, and how the stream ends (naturally, by a read
\* timeout, or by another transport error).  A byte is written as its
\* character when it is ASCII and as "0x.." otherwise; 0xFF is a byte that
\* occurs in no UTF-8 text.
LineValues == {<<>>, <<"d">>, <<"0xFF">>}
StreamEnds == {"eof", "timeout", "request_error"}
StreamReply(status, lines, end) ==
    [k |-> "stream", status |-> status, lines |-> lines, end |-> end]
StreamOutcomes ==
    {Timeout, ConnectError}
        \cup {StreamReply(500, <<>>, "eof"), StreamReply(500, << <<"d">> >>, "eof"),
              StreamReply(404, <<>>, "eof")}
        \cup {StreamReply(200, l, e) :
                l \in SeqsUpTo(LineValues, MaxLines), e \in StreamEnds}

\* ---------------------------------------------------------------------------
\* State
\* ---------------------------------------------------------------------------

VARIABLES
    backend_url,    \* settings.backend_url
    metrics,        \* the process-wide Metrics object
    pc,             \* where the handler of the current request is
    req,            \* the request being handled
    request_id,     \* the handler's resolved request id
    prompt,         \* the handler's extracted prompt
    wire,           \* what has been written to the client for this request
    backend_calls,  \* HTTP calls made to the backend for this request
    sent_body,      \* the body sent to the backend for this request
    resp,           \* what the backend call of this request came to
    upstream,       \* the open upstream stream: its lines, the read position, its end
    recorded,       \* statuses passed to _record_metrics for this request
    completed,      \* chat-completion requests that have ended
    sent_errors,    \* of those, the ones whose status line was >= 400
    client_gone,    \* a write of this request was refused: the client has closed
    clients         \* concurrent clients: their connection and their handler

vars == <<backend_url, metrics, pc, req, request_id, prompt, wire, backend_calls,
          sent_body, resp, upstream, recorded, completed, sent_errors, client_gone,
          clients>>

NoReq == [method |-> NoValue, path |-> NoValue, headers |-> Headers(NoValue, NoValue),
          body |-> JAbsent]
NoResp == [k |-> NoValue]
NoUpstream == [lines |-> <<>>, pos |-> 0, end |-> NoValue]

\* A client that has not connected yet.
Clients == 1..MaxClients
NewClient ==
    [st |-> "new", waited |-> FALSE, status |-> 0, prompt_tokens |-> 0,
     completion_tokens |-> 0, pos |-> 0, loaded |-> FALSE, tmp |-> 0,
     echo |-> FALSE, responded |-> FALSE, refused |-> FALSE, nth |-> 0,
     nth_error |-> 0, probe |-> "none", early |-> FALSE,
     seen |-> [t |-> "obj", request_count |-> 0, error_count |-> 0,
               total_latency_ms |-> 0, prompt_tokens_total |-> 0,
               completion_tokens_total |-> 0]]

Init ==
    /\ backend_url \in BackendUrls
    /\ metrics = [request_count |-> 0, error_count |-> 0, total_latency_ms |-> 0,
                  prompt_tokens_total |-> 0, completion_tokens_total |-> 0]
    /\ pc = "idle"
    /\ req = NoReq
    /\ request_id = NoValue
    /\ prompt = JAbsent
    /\ wire = <<>>
    /\ backend_calls = 0
    /\ sent_body = JAbsent
    /\ resp = NoResp
    /\ upstream = NoUpstream
    /\ recorded = <<>>
    /\ completed = 0
    /\ sent_errors = 0
    /\ client_gone = FALSE
    /\ clients = [c \in Clients |-> NewClient]

\* ---------------------------------------------------------------------------
\* Pure helpers
\* ---------------------------------------------------------------------------

\* Python truthiness of an optional string (None and "" are falsy).
Truthy(v) == v # NoValue /\ v # ""

\* _get_request_id: X-Request-ID, or Request-Id, or a fresh uuid4.
GetRequestId(headers, uuid) ==
    IF Truthy(headers.x_request_id) THEN headers.x_request_id
    ELSE IF Truthy(headers.request_id) THEN headers.request_id
    ELSE uuid

\* _read_json_body: json.loads raises a JSONDecodeError (a ValueError) on
\* bytes that are not JSON, a RecursionError on bytes nested too deep, closed
\* or not, and returns whatever JSON value the bytes hold otherwise.
ReadJsonBody(raw) ==
    [ok |-> raw.t \notin {"invalid", "deep"},
     error |-> IF raw.t = "invalid" THEN "ValueError"
               ELSE IF raw.t = "deep" THEN "RecursionError"
               ELSE NoValue,
     value |-> raw]

\* isinstance(messages, list) and messages
ValidMessages(messages) == messages.t = "list" /\ Len(messages.items) > 0

\* dict.get(key, default) on a field that may be absent
GetOr(v, default) == IF v.t = "absent" THEN default ELSE v

\* A prompt loop without reversed(): the first user message wins.
ScanPromptFirstUser(items, i) ==
    LET users == {j \in 1..i : items[j].t = "obj" /\ items[j].role = "user"}
    IN  IF users = {} THEN [ok |-> TRUE, prompt |-> JStr(<<>>)]
        ELSE LET k == CHOOSE j \in users : \A h \in users : j <= h
             IN  [ok |-> TRUE, prompt |-> GetOr(items[k].content, JStr(<<>>))]

\* The prompt loop: scan the messages in reverse for the first entry whose
\* role is "user"; msg.get raises on an entry that is not an object.
RECURSIVE ScanPrompt(_, _)
ScanPrompt(items, i) ==
    IF i = 0 THEN [ok |-> TRUE, prompt |-> JStr(<<>>)]
    ELSE IF items[i].t # "obj" THEN [ok |-> FALSE, prompt |-> JAbsent]
    ELSE IF items[i].role = "user"
         THEN [ok |-> TRUE, prompt |-> GetOr(items[i].content, JStr(<<>>))]
    ELSE ScanPrompt(items, i - 1)

ExtractPrompt(items) == ScanPrompt(items, Len(items))

\* body.get("stream", False), used as a condition
StreamFlag(body) == body.stream = "true"

\* A count of characters instead of whitespace-separated tokens: len(text).
SplitCountChars(text) == Len(text)

\* The characters str.split() with no argument separates on (those for which
\* str.isspace() holds): tab, line feed, vertical tab, form feed, carriage
\* return, the separators U+001C..U+001F, space, next line, no-break space
\* and the Unicode space and line/paragraph separators.
Whitespace ==
    { " ", "\t", "\n", "\r", "\f", "U+000B", "U+001C", "U+001D", "U+001E", "U+001F",
      "U+0085", "U+00A0", "U+1680", "U+2000", "U+2001", "U+2002", "U+2003",
      "U+2004", "U+2005", "U+2006", "U+2007", "U+2008", "U+2009", "U+200A",
      "U+2028", "U+2029", "U+202F", "U+205F", "U+3000" }

\* len(text.split()): the number of maximal runs of characters that are not
\* whitespace
SplitCount(text) ==
    Cardinality({i \in 1..Len(text) :
                    text[i] \notin Whitespace /\ (i = 1 \/ text[i - 1] \in Whitespace)})

EchoPrefix == <<"E", "c", "h", "o", ":", " ">>
\* An echo that numbers its replies after the first one.
EchoContentNumbered(text) ==
    IF metrics.request_count = 0 THEN EchoPrefix \o text
    ELSE EchoPrefix \o text \o <<" ", "#">>

\* f"Echo: {prompt}"
EchoContent(text) == EchoPrefix \o text

\* build_response
BuildResponse(rid, content, prompt_tokens, completion_tokens) ==
    [t |-> "obj", id |-> rid, object |-> "chat.completion", model |-> "echo",
     content |-> content,
     usage |-> [prompt_tokens |-> prompt_tokens,
                completion_tokens |-> completion_tokens,
                total_tokens |-> prompt_tokens + completion_tokens]]

ErrorBody(code) == [t |-> "obj", error |-> code]

\* What the handler writes to the client.
HeadEvent(status, ctype, rid) ==
    [t |-> "head", status |-> status, ctype |-> ctype, x_request_id |-> rid]
JsonEvent(data) == [t |-> "json", data |-> data]
RawEvent(bytes) == [t |-> "raw", bytes |-> bytes]
FrameEvent(payload) == [t |-> "frame", payload |-> payload]

\* _send_json: status line and headers (X-Request-ID only when a request id
\* is passed), then the JSON body.
SendJson(status, data, rid) ==
    << HeadEvent(status, "application/json", IF Truthy(rid) THEN rid ELSE NoValue),
       JsonEvent(data) >>

\* The SSE response head written by _proxy_stream and _send_sse_echo.
SseHead(rid) == HeadEvent(200, "text/event-stream", rid)

\* An SSE echo that ends after the chunk, without the [DONE] frame.
SendSseEchoWithoutDone(rid, content) ==
    << HeadEvent(200, "text/event-stream", rid),
       FrameEvent([t |-> "chunk", id |-> rid, object |-> "chat.completion.chunk",
                   content |-> content]) >>

\* _send_sse_echo: the head, one chunk frame, the [DONE] frame.
SendSseEcho(rid, content) ==
    << SseHead(rid),
       FrameEvent([t |-> "chunk", id |-> rid, object |-> "chat.completion.chunk",
                   content |-> content]),
       FrameEvent([t |-> "done"]) >>

\* _record_metrics.  The additions run in order; adding a token value that is
\* not a number raises and leaves the earlier additions in place.
RecordMetrics(m, status, latency_ms, prompt_tokens, completion_tokens) ==
    LET m1 == [m EXCEPT !.request_count = @ + 1, !.total_latency_ms = @ + latency_ms]
    IN  IF prompt_tokens.t # "num" THEN [metrics |-> m1, raised |-> TRUE]
        ELSE LET m2 == [m1 EXCEPT !.prompt_tokens_total = @ + prompt_tokens.n]
             IN  IF completion_tokens.t # "num" THEN [metrics |-> m2, raised |-> TRUE]
                 ELSE LET m3 == [m2 EXCEPT !.completion_tokens_total =
                                                @ + completion_tokens.n]
                      IN  [metrics |-> IF status >= 400
                                       THEN [m3 EXCEPT !.error_count = @ + 1]
                                       ELSE m3,
                           raised |-> FALSE]

Zero == JNum(0)

\* ---------------------------------------------------------------------------
\* Steps of the handler
\* ---------------------------------------------------------------------------

\* The writes of `events` are accepted.
Written(events) ==
    /\ wire' = wire \o events
    /\ UNCHANGED client_gone

\* The client has closed its connection: one of the writes of `events` raises
\* (the ones before it were accepted), nothing catches the exception and the
\* handler ends there.
Refused(events) ==
    /\ \E k \in 0..(Len(events) - 1) : wire' = wire \o SubSeq(events, 1, k)
    /\ client_gone' = TRUE
    /\ pc' = "crashed"

\* The handler writes `events` and returns, unless a write is refused.
Respond(events) ==
    \/ Written(events) /\ pc' = "done"
    \/ Refused(events)

\* The handler raises an exception nothing catches: nothing more is written.
Raise ==
    /\ wire' = wire
    /\ pc' = "crashed"
    /\ UNCHANGED client_gone

\* A call of _record_metrics that returns.
Record(status, latency_ms, prompt_tokens, completion_tokens) ==
    /\ metrics' = RecordMetrics(metrics, status, latency_ms,
                                prompt_tokens, completion_tokens).metrics
    /\ recorded' = Append(recorded, status)

\* The server accepts the next request.  Chat-completion requests are
\* accepted up to MaxRequests; the other routes at any time.
Receive ==
    /\ pc = "idle"
    /\ \E m \in Methods, p \in Paths, h \in HeaderSets :
         LET chat == m = "POST" /\ p = ChatPath
         IN  /\ chat => completed < MaxRequests
             /\ \E b \in IF chat THEN ChatBodies ELSE {JAbsent} :
                  req' = [method |-> m, path |-> p, headers |-> h, body |-> b]
    /\ pc' = "recv"
    /\ UNCHANGED <<backend_url, metrics, request_id, prompt, wire, backend_calls,
                   sent_body, resp, upstream, recorded, completed, sent_errors>>
    /\ UNCHANGED <<client_gone, clients>>

\* Replies of the backend's /v1/models endpoint.
ModelsOutcomes ==
    {Timeout, ConnectError}
        \cup {Reply(s, b) : s \in {200, 500},
                            b \in {JInvalid, [t |-> "obj", object |-> "list"]}}

StaticModels ==
    [t |-> "obj", object |-> "list", data |-> <<"echo">>]

\* round(x, 2) of a float given in thousandths: the nearest multiple of ten
\* thousandths.  A value written with a 5 in the third decimal is, as a
\* binary float, just below or just above the midpoint (round(0.005, 2) is
\* 0.01 and round(0.015, 2) is 0.01), so either neighbour can be the result.
Round2(x) ==
    LET lo == (x \div 10) * 10
        rest == x % 10
    IN  IF rest < 5 THEN {lo}
        ELSE IF rest > 5 THEN {lo + 10}
        ELSE {lo, lo + 10}

\* The body of GET /metrics; `rounded` is round(metrics.total_latency_ms, 2).
MetricsBody(rounded) ==
    [t |-> "obj", request_count |-> metrics.request_count,
     error_count |-> metrics.error_count,
     total_latency_ms |-> rounded,
     prompt_tokens_total |-> metrics.prompt_tokens_total,
     completion_tokens_total |-> metrics.completion_tokens_total]

\* _proxy_models: one GET to the backend; resp.json() raises a
\* JSONDecodeError, which is not an httpx error, on a body that is not JSON.
ProxyModels ==
    /\ backend_calls' = backend_calls + 1
    /\ \E o \in ModelsOutcomes :
         /\ resp' = o
         /\ CASE o.k = "timeout" ->
                   Respond(SendJson(504, ErrorBody("gateway_timeout"), NoValue))
              [] o.k = "request_error" ->
                   Respond(SendJson(502, ErrorBody("backend_unavailable"), NoValue))
              [] o.k = "response" ->
                   IF o.body.t = "invalid" THEN Raise
                   ELSE Respond(SendJson(o.status, o.body, NoValue))

\* A do_GET that counts its 404 answers in the metrics.
DoGETCountsNotFound ==
    /\ pc = "recv"
    /\ req.method = "GET"
    /\ IF req.path = "/healthz"
         THEN /\ Respond(SendJson(200, [t |-> "obj", status |-> "ok"], NoValue))
              /\ UNCHANGED <<backend_calls, resp, metrics, recorded>>
       ELSE IF req.path = "/v1/models"
         THEN /\ IF Truthy(backend_url)
                   THEN ProxyModels
                   ELSE /\ Respond(SendJson(200, StaticModels, NoValue))
                        /\ UNCHANGED <<backend_calls, resp>>
              /\ UNCHANGED <<metrics, recorded>>
       ELSE IF req.path = "/metrics"
         THEN /\ \E rounded \in Round2(metrics.total_latency_ms) :
                   Respond(SendJson(200, MetricsBody(rounded), NoValue))
              /\ UNCHANGED <<backend_calls, resp, metrics, recorded>>
       ELSE /\ \E latency_ms \in LatencyValues : Record(404, latency_ms, Zero, Zero)
            /\ Respond(SendJson(404, ErrorBody("not_found"), NoValue))
            /\ UNCHANGED <<backend_calls, resp>>
    /\ UNCHANGED <<backend_url, req, request_id, prompt, sent_body, upstream,
                   completed, sent_errors>>
    /\ UNCHANGED clients

\* do_GET
DoGET ==
    /\ pc = "recv"
    /\ req.method = "GET"
    /\ IF req.path = "/healthz"
         THEN /\ Respond(SendJson(200, [t |-> "obj", status |-> "ok"], NoValue))
              /\ UNCHANGED <<backend_calls, resp>>
       ELSE IF req.path = "/v1/models"
         THEN IF Truthy(backend_url)
                THEN ProxyModels
                ELSE /\ Respond(SendJson(200, StaticModels, NoValue))
                     /\ UNCHANGED <<backend_calls, resp>>
       ELSE IF req.path = "/metrics"
         THEN /\ \E rounded \in Round2(metrics.total_latency_ms) :
                   Respond(SendJson(200, MetricsBody(rounded), NoValue))
              /\ UNCHANGED <<backend_calls, resp>>
       ELSE /\ Respond(SendJson(404, ErrorBody("not_found"), NoValue))
            /\ UNCHANGED <<backend_calls, resp>>
    /\ UNCHANGED <<backend_url, metrics, req, request_id, prompt, sent_body,
                   upstream, recorded, completed, sent_errors>>
    /\ UNCHANGED clients

\* _handle_chat_completions up to the dispatch: resolve the request id, parse
\* and validate the body, extract the prompt, choose echo or backend.
HandleChatCompletions ==
    \E uuid \in Uuid4Values, latency_ms \in LatencyValues :
      LET rid == GetRequestId(req.headers, uuid)
          parsed == ReadJsonBody(req.body)
          body == parsed.value
      IN  /\ request_id' = rid
          /\ IF ~parsed.ok /\ parsed.error = "ValueError"
               THEN /\ Record(400, latency_ms, Zero, Zero)
                    /\ Respond(SendJson(400, ErrorBody("invalid_json"), NoValue))
                    /\ UNCHANGED prompt
             ELSE IF ~parsed.ok
               THEN \* not an exception the except clause names: RecursionError
                    /\ Raise
                    /\ UNCHANGED <<metrics, recorded, prompt>>
             ELSE IF body.t # "obj"
               THEN \* body.get on a value that is not a dict: AttributeError
                    /\ Raise
                    /\ UNCHANGED <<metrics, recorded, prompt>>
             ELSE IF ~ValidMessages(body.messages)
               THEN /\ Record(400, latency_ms, Zero, Zero)
                    /\ Respond(SendJson(400, ErrorBody("invalid_messages"), NoValue))
                    /\ UNCHANGED prompt
             ELSE LET ex == ExtractPrompt(body.messages.items)
                  IN  IF ~ex.ok
                        THEN /\ Raise
                             /\ UNCHANGED <<metrics, recorded, prompt>>
                        ELSE /\ prompt' = ex.prompt
                             /\ pc' = IF Truthy(backend_url) THEN "backend" ELSE "echo"
                             /\ UNCHANGED <<metrics, recorded, wire, client_gone>>

\* A do_POST that also answers the health check.
DoPOSTAnswersHealthz ==
    /\ pc = "recv"
    /\ req.method = "POST"
    /\ IF req.path = ChatPath
         THEN HandleChatCompletions
       ELSE IF req.path = "/healthz"
         THEN /\ Respond(SendJson(200, [t |-> "obj", status |-> "ok"], NoValue))
              /\ UNCHANGED <<metrics, recorded, prompt, request_id>>
       ELSE /\ Respond(SendJson(404, ErrorBody("not_found"), NoValue))
            /\ UNCHANGED <<metrics, recorded, prompt, request_id>>
    /\ UNCHANGED <<backend_url, req, backend_calls, sent_body, resp, upstream,
                   completed, sent_errors>>
    /\ UNCHANGED clients

\* do_POST
DoPOST ==
    /\ pc = "recv"
    /\ req.method = "POST"
    /\ IF req.path = ChatPath
         THEN HandleChatCompletions
         ELSE /\ Respond(SendJson(404, ErrorBody("not_found"), NoValue))
              /\ UNCHANGED <<metrics, recorded, prompt, request_id>>
    /\ UNCHANGED <<backend_url, req, backend_calls, sent_body, resp, upstream,
                   completed, sent_errors>>
    /\ UNCHANGED clients

\* _handle_echo up to the response: prompt.split() raises on a prompt that is
\* not a string; otherwise the reply is written (SSE or JSON), and a write
\* that is refused ends the handler before the metrics are recorded.
HandleEcho ==
    /\ pc = "echo"
    /\ IF prompt.t # "str"
         THEN Raise
         ELSE LET content == EchoContent(prompt.s)
                  prompt_tokens == SplitCount(prompt.s)
                  completion_tokens == SplitCount(content)
                  events == IF StreamFlag(req.body)
                              THEN SendSseEcho(request_id, content)
                              ELSE SendJson(200, BuildResponse(request_id, content,
                                                 prompt_tokens, completion_tokens),
                                            request_id)
              IN  \/ Written(events) /\ pc' = "echo_sent"
                  \/ Refused(events)
    /\ UNCHANGED <<backend_url, metrics, req, request_id, prompt, backend_calls,
                   sent_body, resp, upstream, recorded, completed, sent_errors>>
    /\ UNCHANGED clients

\* _handle_echo after the response: the metrics are recorded.
EchoRecord ==
    /\ pc = "echo_sent"
    /\ \E latency_ms \in LatencyValues :
         Record(200, latency_ms, JNum(SplitCount(prompt.s)),
                JNum(SplitCount(EchoContent(prompt.s))))
    /\ pc' = "done"
    /\ UNCHANGED <<backend_url, req, request_id, prompt, wire, backend_calls,
                   sent_body, resp, upstream, completed, sent_errors>>
    /\ UNCHANGED <<client_gone, clients>>

\* Except clauses that answer a timeout like any other transport error.
BackendFailureNoTimeoutClause(kind, latency_ms) ==
    /\ Record(502, latency_ms, Zero, Zero)
    /\ Respond(SendJson(502, ErrorBody("backend_unavailable"), request_id))

\* The except clauses of _handle_backend.
BackendFailure(kind, latency_ms) ==
    IF kind = "timeout"
      THEN /\ Record(504, latency_ms, Zero, Zero)
           /\ Respond(SendJson(504, ErrorBody("gateway_timeout"), request_id))
      ELSE /\ Record(502, latency_ms, Zero, Zero)
           /\ Respond(SendJson(502, ErrorBody("backend_unavailable"), request_id))

\* A forward that rebuilds the payload from the messages and loses stream.
ForwardedBodyWithoutStream(body) == [body EXCEPT !.stream = "absent"]

\* What the gateway posts to the backend: json=body.
ForwardedBody(body) == body

\* A handler that tries the backend a second time after a timeout.
BackendAttemptsRetryOnTimeout(o) == IF o.k = "timeout" THEN 2 ELSE 1

\* The HTTP calls a handler makes to the backend for an outcome `o` of the
\* call: one client.post / client.stream, with no loop around it.
BackendAttempts(o) == 1

\* _proxy_non_stream after the POST returned `o`.
ProxyNonStream(o, latency_ms) ==
    IF o.status >= 500
      THEN /\ Record(502, latency_ms, Zero, Zero)
           /\ Respond(SendJson(502, ErrorBody("backend_error"), request_id))
    ELSE IF o.body.t = "invalid"
      THEN /\ Record(502, latency_ms, Zero, Zero)
           /\ Respond(SendJson(502, ErrorBody("backend_invalid_response"), request_id))
    ELSE IF o.body.t # "obj"
      THEN \* data["id"] = ... on a value that is not a dict: TypeError
           /\ Raise
           /\ UNCHANGED <<metrics, recorded>>
    ELSE LET data == [o.body EXCEPT !.id = request_id]
             usage == GetOr(data.usage, Usage(JAbsent, JAbsent))
         IN  IF usage.t # "obj"
               THEN \* usage.get on a value that is not a dict: AttributeError
                    /\ Raise
                    /\ UNCHANGED <<metrics, recorded>>
               ELSE LET prompt_tokens == GetOr(usage.prompt_tokens, Zero)
                        completion_tokens == GetOr(usage.completion_tokens, Zero)
                        rec == RecordMetrics(metrics, o.status, latency_ms,
                                             prompt_tokens, completion_tokens)
                    IN  /\ metrics' = rec.metrics
                        /\ recorded' = Append(recorded, o.status)
                        /\ IF rec.raised
                             THEN Raise
                             ELSE Respond(SendJson(o.status, data, request_id))

\* _handle_backend for a request that does not stream: one POST to the
\* backend, then _proxy_non_stream or an except clause.
HandleBackend ==
    /\ pc = "backend"
    /\ ~StreamFlag(req.body)
    /\ sent_body' = ForwardedBody(req.body)
    /\ \E o \in BackendOutcomes, latency_ms \in LatencyValues :
         /\ resp' = o
         /\ backend_calls' = backend_calls + BackendAttempts(o)
         /\ IF o.k = "response"
              THEN ProxyNonStream(o, latency_ms)
              ELSE BackendFailure(o.k, latency_ms)
    /\ UNCHANGED <<backend_url, req, request_id, prompt, upstream, completed,
                   sent_errors>>
    /\ UNCHANGED clients

\* A check that lets a status of exactly 500 through.
UpstreamFailedAbove500(status) == status > 500

\* if resp.status_code >= 500, the check _proxy_stream makes before it writes
\* anything to the client
UpstreamFailed(status) == status >= 500

\* _proxy_stream up to the response head: one streaming POST to the backend;
\* a status >= 500 is answered with a JSON 502, any other status with the
\* SSE head; a failure of the call goes to an except clause.  A refused
\* write of the head ends the handler: the except clauses name httpx errors.
ProxyStreamOpen ==
    /\ pc = "backend"
    /\ StreamFlag(req.body)
    /\ sent_body' = ForwardedBody(req.body)
    /\ \E o \in StreamOutcomes, latency_ms \in LatencyValues :
         /\ resp' = o
         /\ backend_calls' = backend_calls + BackendAttempts(o)
         /\ IF o.k # "stream"
              THEN /\ BackendFailure(o.k, latency_ms)
                   /\ UNCHANGED upstream
            ELSE IF UpstreamFailed(o.status)
              THEN /\ Record(502, latency_ms, Zero, Zero)
                   /\ Respond(SendJson(502, ErrorBody("backend_error"), request_id))
                   /\ UNCHANGED upstream
            ELSE /\ \/ /\ Written(<<SseHead(request_id)>>)
                       /\ upstream' = [lines |-> o.lines, pos |-> 0, end |-> o.end]
                       /\ pc' = "relay"
                    \/ /\ Refused(<<SseHead(request_id)>>)
                       /\ UNCHANGED upstream
                 /\ UNCHANGED <<metrics, recorded>>
    /\ UNCHANGED <<backend_url, req, request_id, prompt, completed, sent_errors>>
    /\ UNCHANGED clients

\* resp.iter_lines() yields text: the bytes of the line decoded as UTF-8 (the
\* charset of a response that names none) with errors="replace", so a byte
\* that is not UTF-8 becomes the replacement character U+FFFD.
RECURSIVE Decode(_)
Decode(bytes) ==
    IF bytes = <<>> THEN <<>>
    ELSE <<IF Head(bytes) = "0xFF" THEN "U+FFFD" ELSE Head(bytes)>> \o Decode(Tail(bytes))

\* str.encode(): UTF-8, one byte for an ASCII character and EF BF BD for
\* U+FFFD.
RECURSIVE Encode(_)
Encode(text) ==
    IF text = <<>> THEN <<>>
    ELSE (IF Head(text) = "U+FFFD" THEN <<"0xEF", "0xBF", "0xBD">> ELSE <<Head(text)>>)
            \o Encode(Tail(text))

\* The bytes written for one upstream line: (line + "\n").encode(), `line`
\* being what iter_lines yields for the bytes of the backend.
RelayBytes(line) == Encode(Decode(line) \o <<"\n">>)

\* One turn of the relay loop: the next upstream line is written; a refused
\* write ends the handler with nothing recorded.
RelayLine ==
    /\ pc = "relay"
    /\ upstream.pos < Len(upstream.lines)
    /\ LET events == <<RawEvent(RelayBytes(upstream.lines[upstream.pos + 1]))>>
       IN  \/ /\ Written(events)
              /\ upstream' = [upstream EXCEPT !.pos = @ + 1]
              /\ UNCHANGED pc
           \/ /\ Refused(events)
              /\ UNCHANGED upstream
    /\ UNCHANGED <<backend_url, metrics, req, request_id, prompt, backend_calls,
                   sent_body, resp, recorded, completed, sent_errors>>
    /\ UNCHANGED clients

\* What _proxy_stream writes once iter_lines is exhausted.
StreamTrailer == <<RawEvent(<<"\n">>)>>

\* The upstream stream ends: the trailing blank line, then the metrics; a
\* refused write of the blank line ends the handler with nothing recorded.
RelayEnd ==
    /\ pc = "relay"
    /\ upstream.pos = Len(upstream.lines)
    /\ upstream.end = "eof"
    /\ \/ /\ Written(StreamTrailer)
          /\ \E latency_ms \in LatencyValues : Record(200, latency_ms, Zero, Zero)
          /\ pc' = "done"
       \/ /\ Refused(StreamTrailer)
          /\ UNCHANGED <<metrics, recorded>>
    /\ UNCHANGED <<backend_url, req, request_id, prompt, backend_calls, sent_body,
                   resp, upstream, completed, sent_errors>>
    /\ UNCHANGED clients

\* The upstream stream fails while it is read: iter_lines raises into the
\* except clauses of _handle_backend.
RelayFail ==
    /\ pc = "relay"
    /\ upstream.pos = Len(upstream.lines)
    /\ upstream.end # "eof"
    /\ \E latency_ms \in LatencyValues : BackendFailure(upstream.end, latency_ms)
    /\ UNCHANGED <<backend_url, req, request_id, prompt, backend_calls, sent_body,
                   resp, upstream, completed, sent_errors>>
    /\ UNCHANGED clients

\* The status line the client received for the current request (0: none).
ClientStatus == IF wire = <<>> THEN 0 ELSE wire[1].status

IsChat(r) == r.method = "POST" /\ r.path = ChatPath

\* The handler has returned or raised: the server loop closes the request
\* and waits for the next one.
Return ==
    /\ pc \in {"done", "crashed"}
    /\ pc' = "idle"
    /\ completed' = IF IsChat(req) THEN completed + 1 ELSE completed
    /\ sent_errors' = IF IsChat(req) /\ ClientStatus >= 400
                        THEN sent_errors + 1 ELSE sent_errors
    /\ req' = NoReq
    /\ request_id' = NoValue
    /\ prompt' = JAbsent
    /\ wire' = <<>>
    /\ backend_calls' = 0
    /\ sent_body' = JAbsent
    /\ resp' = NoResp
    /\ upstream' = NoUpstream
    /\ recorded' = <<>>
    /\ client_gone' = FALSE
    /\ UNCHANGED <<backend_url, metrics>>
    /\ UNCHANGED clients

\* settings.backend_url is set or cleared between two requests.
SetBackend ==
    /\ pc = "idle"
    /\ backend_url' \in BackendUrls \ {backend_url}
    /\ UNCHANGED <<metrics, pc, req, request_id, prompt, wire, backend_calls,
                   sent_body, resp, upstream, recorded, completed, sent_errors>>
    /\ UNCHANGED <<client_gone, clients>>

Next ==
    \/ Receive
    \/ DoGET
    \/ DoPOST
    \/ HandleEcho
    \/ EchoRecord
    \/ HandleBackend
    \/ ProxyStreamOpen
    \/ RelayLine
    \/ RelayEnd
    \/ RelayFail
    \/ Return
    \/ SetBackend

Spec == Init /\ [][Next]_vars

\* ---------------------------------------------------------------------------
\* Concurrent clients
\*
\* Several clients connect at the same time.  Each client's chat-completion
\* request is taken at the call of _record_metrics its handler makes and at
\* the response it writes; every `+=` of that call on the shared Metrics
\* object is a read of the counter followed by a write of the sum.  A client
\* that has received its response may ask for GET /metrics on a connection
\* of its own, which the server accepts, answers and closes like any other.
\* ---------------------------------------------------------------------------

\* The (status, prompt_tokens, completion_tokens) a handler records: an echo
\* reply, a validation error, a backend error.  _handle_echo writes its
\* response before it records; the error paths record first.
RecordArgs ==
    { [status |-> 200, prompt_tokens |-> 2, completion_tokens |-> 3, echo |-> TRUE],
      [status |-> 400, prompt_tokens |-> 0, completion_tokens |-> 0, echo |-> FALSE],
      [status |-> 502, prompt_tokens |-> 0, completion_tokens |-> 0, echo |-> FALSE] }

\* The counters in the order _record_metrics updates them.
Counters ==
    << "request_count", "total_latency_ms", "prompt_tokens_total",
       "completion_tokens_total", "error_count" >>

\* What the handler of client `cl` adds to the counter at position `k`.
Addend(cl, k) ==
    CASE k = 1 -> 1
      [] k = 2 -> CHOOSE latency_ms \in LatencyValues : TRUE
      [] k = 3 -> cl.prompt_tokens
      [] k = 4 -> cl.completion_tokens
      [] k = 5 -> 1

\* The last counter the handler of `cl` updates: error_count only for a
\* status >= 400.
LastCounter(cl) == IF cl.status >= 400 THEN 5 ELSE 4

\* A server that hands every connection to a thread of its own.
NoHandlerRunningThreaded == TRUE

\* HTTPServer.serve_forever handles a request to its end (process_request
\* runs the handler in the serving thread) before it accepts the next one,
\* be it a chat-completion request or a GET /metrics.
NoHandlerRunning ==
    \A c \in Clients :
        /\ clients[c].st # "handling"
        /\ clients[c].probe \notin {"handling", "sent", "reset"}

\* A client connects and sends its request: the connection waits in the
\* listen queue of the server socket.
ClientConnect(c) ==
    /\ clients[c].st = "new"
    /\ \E a \in RecordArgs :
         clients' = [clients EXCEPT ![c] =
                        [@ EXCEPT !.st = "queued",
                                  !.waited = ~NoHandlerRunning,
                                  !.status = a.status,
                                  !.echo = a.echo,
                                  !.prompt_tokens = a.prompt_tokens,
                                  !.completion_tokens = a.completion_tokens]]
    /\ UNCHANGED <<backend_url, metrics, pc, req, request_id, prompt, wire,
                   backend_calls, sent_body, resp, upstream, recorded, completed,
                   sent_errors,
                   client_gone>>

\* The server accepts a waiting connection and runs its handler.
ServerAccept(c) ==
    /\ clients[c].st = "queued"
    /\ NoHandlerRunning
    /\ clients' = [clients EXCEPT ![c] = [@ EXCEPT !.st = "handling", !.pos = 1]]
    /\ UNCHANGED <<backend_url, metrics, pc, req, request_id, prompt, wire,
                   backend_calls, sent_body, resp, upstream, recorded, completed,
                   sent_errors,
                   client_gone>>

\* The handler writes its complete response: _handle_echo before the call of
\* _record_metrics, the other paths after it.  When the client has closed
\* its connection the write raises and the handler ends there: for
\* _handle_echo without the call of _record_metrics.
WriteResponse(c) ==
    /\ clients[c].st = "handling"
    /\ ~clients[c].responded
    /\ IF clients[c].echo
         THEN clients[c].pos = 1 /\ ~clients[c].loaded
         ELSE clients[c].pos > LastCounter(clients[c])
    /\ \/ clients' = [clients EXCEPT ![c] = [@ EXCEPT !.responded = TRUE]]
       \/ clients' = [clients EXCEPT ![c] = [@ EXCEPT !.refused = TRUE,
                                                      !.st = "served"]]
    /\ UNCHANGED <<backend_url, metrics, pc, req, request_id, prompt, wire,
                   backend_calls, sent_body, resp, upstream, recorded, completed,
                   sent_errors,
                   client_gone>>

\* _record_metrics, the read of a `+=`.
RecordLoad(c) ==
    /\ clients[c].st = "handling"
    /\ clients[c].echo => clients[c].responded
    /\ ~clients[c].loaded
    /\ clients[c].pos <= LastCounter(clients[c])
    /\ clients' = [clients EXCEPT ![c] =
                      [@ EXCEPT !.loaded = TRUE,
                                !.tmp = metrics[Counters[clients[c].pos]]]]
    /\ UNCHANGED <<backend_url, metrics, pc, req, request_id, prompt, wire,
                   backend_calls, sent_body, resp, upstream, recorded, completed,
                   sent_errors,
                   client_gone>>

\* _record_metrics, the write of a `+=`; `nth` and `nth_error` keep the
\* values this handler stored in request_count and in error_count.
RecordStore(c) ==
    /\ clients[c].st = "handling"
    /\ clients[c].loaded
    /\ LET k == clients[c].pos
           sum == clients[c].tmp + Addend(clients[c], k)
       IN  /\ metrics' = [metrics EXCEPT ![Counters[k]] = sum]
           /\ clients' = [clients EXCEPT ![c] =
                             [@ EXCEPT !.loaded = FALSE, !.pos = @ + 1, !.tmp = 0,
                                       !.nth = IF k = 1 THEN sum ELSE @,
                                       !.nth_error = IF k = 5 THEN sum ELSE @]]
    /\ UNCHANGED <<backend_url, pc, req, request_id, prompt, wire, backend_calls,
                   sent_body, resp, upstream, recorded, completed, sent_errors,
                   client_gone>>

\* The handler returns and the server closes the request ("served", as it
\* does for a handler that raised).
ShutdownRequest(c) ==
    /\ clients[c].st = "handling"
    /\ clients[c].responded
    /\ clients[c].pos > LastCounter(clients[c])
    /\ clients' = [clients EXCEPT ![c] = [@ EXCEPT !.st = "served"]]
    /\ UNCHANGED <<backend_url, metrics, pc, req, request_id, prompt, wire,
                   backend_calls, sent_body, resp, upstream, recorded, completed,
                   sent_errors,
                   client_gone>>

\* A client that has received the complete response of its chat-completion
\* request sends GET /metrics on a new connection, which waits in the listen
\* queue; `early` tells that its handler had not returned yet.
MetricsConnect(c) ==
    /\ clients[c].responded
    /\ clients[c].probe = "none"
    /\ clients' = [clients EXCEPT ![c] =
                      [@ EXCEPT !.probe = "queued",
                                !.early = (clients[c].st = "handling")]]
    /\ UNCHANGED <<backend_url, metrics, pc, req, request_id, prompt, wire,
                   backend_calls, sent_body, resp, upstream, recorded, completed,
                   sent_errors,
                   client_gone>>

\* The server accepts the waiting GET /metrics and runs its handler.
MetricsAccept(c) ==
    /\ clients[c].probe = "queued"
    /\ NoHandlerRunning
    /\ clients' = [clients EXCEPT ![c] = [@ EXCEPT !.probe = "handling"]]
    /\ UNCHANGED <<backend_url, metrics, pc, req, request_id, prompt, wire,
                   backend_calls, sent_body, resp, upstream, recorded, completed,
                   sent_errors,
                   client_gone>>

\* do_GET for /metrics: the body is built from the counters as they are, the
\* latency total rounded, and _send_json writes it ("sent"); when the client
\* has closed its connection the write raises and the client is answered
\* nothing ("reset").
MetricsServe(c) ==
    /\ clients[c].probe = "handling"
    /\ \/ \E rounded \in Round2(metrics.total_latency_ms) :
            clients' = [clients EXCEPT ![c] =
                           [@ EXCEPT !.probe = "sent",
                                     !.seen = MetricsBody(rounded)]]
       \/ clients' = [clients EXCEPT ![c] = [@ EXCEPT !.probe = "reset"]]
    /\ UNCHANGED <<backend_url, metrics, pc, req, request_id, prompt, wire,
                   backend_calls, sent_body, resp, upstream, recorded, completed,
                   sent_errors,
                   client_gone>>

\* The handler of the GET /metrics has returned or raised and the server
\* closes the request.
MetricsShutdown(c) ==
    /\ clients[c].probe \in {"sent", "reset"}
    /\ clients' = [clients EXCEPT ![c] =
                      [@ EXCEPT !.probe = IF @ = "sent" THEN "answered"
                                                        ELSE "dropped"]]
    /\ UNCHANGED <<backend_url, metrics, pc, req, request_id, prompt, wire,
                   backend_calls, sent_body, resp, upstream, recorded, completed,
                   sent_errors,
                   client_gone>>

ConcurrentNext ==
    \E c \in Clients :
        \/ ClientConnect(c)
        \/ ServerAccept(c)
        \/ WriteResponse(c)
        \/ RecordLoad(c)
        \/ RecordStore(c)
        \/ ShutdownRequest(c)
        \/ MetricsConnect(c)
        \/ MetricsAccept(c)
        \/ MetricsServe(c)
        \/ MetricsShutdown(c)

ConcurrentSpec == Init /\ [][ConcurrentNext]_vars

\* ---------------------------------------------------------------------------
\* Claims
\* ---------------------------------------------------------------------------

\* The handler of the current request has returned or raised.
Ended == pc \in {"done", "crashed"}

\* The response heads written for the current request.
Heads == {i \in 1..Len(wire) : wire[i].t = "head"}

\* C1: metrics are mutated exactly once per chat-completion request whatever
\* its outcome: every ended request has had exactly one call of
\* _record_metrics, so after N ended requests request_count is N.
C1_RequestCountIsCompleted ==
    /\ (Ended /\ IsChat(req)) => Len(recorded) = 1
    /\ pc = "idle" => metrics.request_count = completed

\* C2: the status recorded in the metrics is the status sent to the client,
\* so error_count is the number of chat-completion requests whose status line
\* was >= 400, on every path.
C2_RecordedStatusIsSentStatus ==
    /\ (pc = "done" /\ IsChat(req)) =>
          \A i \in 1..Len(recorded) : recorded[i] = ClientStatus
    /\ pc = "idle" => metrics.error_count = sent_errors

\* The request ids the headers of the current request resolve to.
ResolvedIds == {GetRequestId(req.headers, u) : u \in Uuid4Values}

\* C3: every response the gateway sends carries an X-Request-ID header whose
\* value is the request id resolved for the request.
C3_EveryResponseCarriesRequestId ==
    \A i \in Heads :
        /\ wire[i].x_request_id \in ResolvedIds
        /\ request_id # NoValue => wire[i].x_request_id = request_id

\* C4: the resolved id is the X-Request-ID header if supplied, else the
\* Request-Id header if supplied, else a fresh uuid4; the X-Request-ID response
\* header equals it, and so does the id of a JSON body that is returned.
C4_ResponseIdIsResolvedId ==
    Ended =>
        LET x == req.headers.x_request_id
            r == req.headers.request_id
            expected == IF x # NoValue THEN {x}
                        ELSE IF r # NoValue THEN {r}
                        ELSE Uuid4Values
        IN  \A i \in Heads :
                /\ wire[i].x_request_id \in expected
                /\ (i < Len(wire) /\ wire[i + 1].t = "json"
                        /\ "id" \in DOMAIN wire[i + 1].data)
                      => wire[i + 1].data.id = wire[i].x_request_id

\* The statuses and codes of the error taxonomy.
Taxonomy ==
    { <<400, "invalid_json">>, <<400, "invalid_messages">>, <<502, "backend_error">>,
      <<502, "backend_invalid_response">>, <<502, "backend_unavailable">>,
      <<504, "gateway_timeout">>, <<404, "not_found">> }

\* C5: no failure propagates past the handler: for every request body and
\* every backend outcome the handler ends having sent a response, and an
\* error it sends is a JSON error body with the status of the taxonomy.
C5_NoFailureEscapesTheHandler ==
    /\ pc # "crashed"
    /\ pc = "done" =>
          /\ wire # <<>>
          /\ \A i \in 1..Len(wire) :
                (wire[i].t = "json" /\ "error" \in DOMAIN wire[i].data)
                    => <<wire[i - 1].status, wire[i].data.error>> \in Taxonomy

\* A chat-completion body the validation rejects: not JSON, or a JSON object
\* whose messages field is missing, not a list, or an empty list.
NotJson(b) == b.t = "invalid" \/ (b.t = "deep" /\ ~b.json)
BadMessages(b) ==
    b.t = "obj" /\ (b.messages.t # "list" \/ b.messages.items = <<>>)

\* The current request was answered 400 with `code` and went no further.
Rejected(code) ==
    /\ pc = "done"
    /\ Len(wire) = 2
    /\ wire[1].status = 400
    /\ wire[2].data = ErrorBody(code)
    /\ backend_calls = 0
    /\ prompt = JAbsent

\* C6: a chat-completion body that is not JSON is answered 400 invalid_json,
\* a body whose messages field is missing, not a list or empty is answered
\* 400 invalid_messages; either way the request never reaches the echo
\* responder or the backend, with or without a backend configured.  Stated
\* for clients that are there to be answered.
C6_InvalidBodiesRejectedBeforeDispatch ==
    (IsChat(req) /\ pc \notin {"idle", "recv"} /\ ~client_gone) =>
        /\ NotJson(req.body) => Rejected("invalid_json")
        /\ BadMessages(req.body) => Rejected("invalid_messages")

\* What the backend call of the current request came to: "timeout",
\* "request_error" (at the call or while the stream is read), "status_5xx",
\* "not_json" (a body that is not JSON, outside streaming), or "ok".
BackendOutcomeKind ==
    IF resp.k \in {"timeout", "request_error"} THEN resp.k
    ELSE IF resp.status >= 500 THEN "status_5xx"
    ELSE IF resp.k = "stream"
      THEN (IF upstream.end = "eof" THEN "ok" ELSE upstream.end)
    ELSE IF resp.body.t = "invalid" THEN "not_json"
    ELSE "ok"

\* The error responses written for the current request: <<status, code>>.
ErrorResponses ==
    {<<wire[i - 1].status, wire[i].data.error>> :
        i \in {j \in 1..Len(wire) : wire[j].t = "json" /\ "error" \in DOMAIN wire[j].data}}

TranslatedError(kind) ==
    CASE kind = "status_5xx" -> {<<502, "backend_error">>}
      [] kind = "timeout" -> {<<504, "gateway_timeout">>}
      [] kind = "request_error" -> {<<502, "backend_unavailable">>}
      [] kind = "not_json" -> {<<502, "backend_invalid_response">>}
      [] OTHER -> {}

\* C7: in streaming and non-streaming proxy mode an upstream status >= 500 is
\* answered 502 backend_error, a timeout 504 gateway_timeout, another
\* transport failure 502 backend_unavailable, a body that is not JSON (outside
\* streaming) 502 backend_invalid_response, and no other backend outcome
\* produces any of these; when the failure comes before a response head was
\* written, that error response is the whole response.
C7_BackendFailureTranslation ==
    (pc = "done" /\ IsChat(req) /\ backend_calls > 0) =>
        /\ ErrorResponses = TranslatedError(BackendOutcomeKind)
        /\ (BackendOutcomeKind # "ok" /\ wire[1].ctype = "application/json") =>
              /\ Len(wire) = 2
              /\ <<ClientStatus, wire[2].data.error>>
                    \in TranslatedError(BackendOutcomeKind)

C7_Witness ==
    /\ pc = "done"
    /\ IsChat(req)
    /\ resp = Timeout
    /\ StreamFlag(req.body)
    /\ ClientStatus = 504

\* The messages of a body are a non-empty list of objects.
WellFormedMessages(b) ==
    /\ b.t = "obj"
    /\ b.messages.t = "list"
    /\ b.messages.items # <<>>
    /\ \A i \in 1..Len(b.messages.items) : b.messages.items[i].t = "obj"

\* C8: no retries.  A request makes at most one HTTP call to the backend:
\* exactly one when a backend is configured and the request is valid, none in
\* echo mode or for a request the validation rejects; a timeout, transport
\* failure or 5xx ends the request with that one call made.
C8_SingleBackendAttempt ==
    /\ backend_calls <= 1
    /\ (Ended /\ IsChat(req)) =>
          /\ (~Truthy(backend_url) \/ NotJson(req.body) \/ BadMessages(req.body))
                => backend_calls = 0
          /\ (Truthy(backend_url) /\ WellFormedMessages(req.body))
                => backend_calls = 1

C8_Witness ==
    /\ pc = "done"
    /\ IsChat(req)
    /\ resp = Timeout
    /\ ~StreamFlag(req.body)
    /\ backend_calls = 1
    /\ recorded = <<504>>

\* Where a chat-completion request stands with respect to the dispatch.
C9_Routing ==
    /\ pc \in {"echo", "echo_sent"} =>
          ~Truthy(backend_url) /\ backend_calls = 0 /\ sent_body = JAbsent
    /\ pc \in {"backend", "relay"} => Truthy(backend_url)
    /\ (IsChat(req) /\ Ended /\ ~Truthy(backend_url)) => backend_calls = 0
    /\ (IsChat(req) /\ backend_calls > 0) => sent_body = req.body

\* The dispatch step reads backend_url as it is then; a change of backend_url
\* falls between two requests and touches nothing else.
C9_DispatchStep ==
    /\ (pc = "recv" /\ pc' \in {"echo", "backend"}) =>
          (pc' = "backend" <=> Truthy(backend_url))
    /\ backend_url' # backend_url =>
          /\ pc = "idle"
          /\ UNCHANGED <<metrics, pc, req, request_id, prompt, wire, backend_calls,
                         sent_body, resp, upstream, recorded, completed, sent_errors>>

\* C9: backend_url alone switches between echo and proxy, read once per
\* request at the dispatch: without it a valid request is served by the echo
\* responder and no backend call is made, with it the request is forwarded
\* with its entire original body (stream included); a change of backend_url
\* between two requests changes the routing of the later request only.
C9_BackendUrlIsTheSwitch == [](C9_Routing) /\ [][C9_DispatchStep]_vars

\* The second request is proxied, streaming, after a first one served by the
\* echo responder (only an echo reply adds 1 or 3 completion tokens).
C9_Witness ==
    /\ pc = "done"
    /\ IsChat(req)
    /\ completed = 1
    /\ metrics.request_count = 2
    /\ metrics.completion_tokens_total \in {1, 3}
    /\ backend_calls = 1
    /\ StreamFlag(req.body)
    /\ sent_body = req.body

\* The bytes json.dumps(data).encode() gives for an error body; another
\* body is a JSON object on one line.
JsonBytes(data) ==
    IF data.t = "obj" /\ "error" \in DOMAIN data
      THEN <<"{", "\"error\": ", "\"", data.error, "\"", "}">>
      ELSE <<"{", "}">>

\* The bytes one write puts on the connection: a response head is the status
\* line and one line per header, each ended by CR LF, and an empty line; a
\* JSON body has no line end; an SSE frame is a data line and an empty line.
EventBytes(e) ==
    CASE e.t = "raw" -> e.bytes
      [] e.t = "json" -> JsonBytes(e.data)
      [] e.t = "frame" ->
            <<"data: ", (IF e.payload.t = "done" THEN "[DONE]" ELSE "{chunk}"),
              "\n", "\n">>
      [] e.t = "head" ->
            <<"HTTP/1.0 ", ToString(e.status), "\r", "\n">>
              \o <<"Server", "\r", "\n", "Date", "\r", "\n">>
              \o <<"Content-Type: ", e.ctype, "\r", "\n">>
              \o (IF e.ctype = "application/json"
                    THEN <<"Content-Length", "\r", "\n">>
                    ELSE <<"Cache-Control: no-cache", "\r", "\n">>)
              \o (IF e.x_request_id # NoValue
                    THEN <<"X-Request-ID: ", e.x_request_id, "\r", "\n">>
                    ELSE <<>>)
              \o <<"\r", "\n">>

\* Every byte written to the connection by the writes `events`, in order.
RECURSIVE WireBytes(_)
WireBytes(events) ==
    IF events = <<>> THEN <<>>
    ELSE EventBytes(Head(events)) \o WireBytes(Tail(events))

\* What the client reads as the body of the response: every byte written
\* after the first response head, whichever write it came from.
BodyBytes(events) ==
    IF events = <<>> THEN <<>> ELSE WireBytes(Tail(events))

\* The lines of a byte sequence, split at the newlines.
RECURSIVE SplitLines(_)
SplitLines(bytes) ==
    IF bytes = <<>> THEN <<>>
    ELSE IF \E k \in 1..Len(bytes) : bytes[k] = "\n"
      THEN LET k == CHOOSE j \in 1..Len(bytes) :
                        /\ bytes[j] = "\n"
                        /\ \A h \in 1..(j - 1) : bytes[h] # "\n"
           IN  <<SubSeq(bytes, 1, k - 1)>> \o SplitLines(SubSeq(bytes, k + 1, Len(bytes)))
      ELSE <<bytes>>

\* C10: in streaming proxy mode the upstream lines are relayed in order, each
\* once and each followed by a newline, none dropped, duplicated, reordered
\* or transformed: the lines the client has been sent after the SSE head are
\* at every point the lines the backend has produced so far, a prefix of all
\* its lines; after the natural end of the stream exactly one blank line
\* follows, and no [DONE] frame is written.
C10_StreamRelayedLineByLine ==
    (IsChat(req) /\ pc \in {"relay", "done", "crashed"}
        /\ resp.k = "stream" /\ resp.status < 500) =>
        LET bytes == BodyBytes(wire)
            written == SplitLines(bytes)
        IN  /\ bytes = <<>> \/ bytes[Len(bytes)] = "\n"
            /\ \A i \in 1..Len(wire) : wire[i].t # "frame"
            /\ pc \in {"relay", "crashed"} =>
                  written = SubSeq(resp.lines, 1, upstream.pos)
            /\ (pc = "done" /\ upstream.end = "eof") => written = resp.lines \o << <<>> >>
            /\ (pc = "done" /\ upstream.end # "eof") => written = resp.lines

\* The current request is a chat-completion request proxied in streaming mode
\* whose backend call returned a response with a status line.
StreamedProxy ==
    IsChat(req) /\ backend_calls > 0 /\ resp.k = "stream"

\* C11: in streaming proxy mode the 200 response with the SSE headers is
\* written only once the upstream status is known and is below 500; for an
\* upstream status of 500 or more the client is sent the buffered JSON 502
\* backend_error and nothing else: no SSE head and no upstream line, whatever
\* the upstream body holds (a client that has closed its connection is sent
\* the part of that JSON response it accepted).
C11_SseHeadOnlyBelow500 ==
    /\ (IsChat(req) /\ Truthy(backend_url)
            /\ \E i \in 1..Len(wire) :
                    (wire[i].t = "head" /\ wire[i].ctype = "text/event-stream")
                        \/ wire[i].t = "raw")
          => (StreamedProxy /\ resp.status < 500 /\ wire[1] = SseHead(request_id))
    /\ (StreamedProxy /\ resp.status >= 500) =>
          LET answer == << [t |-> "head", status |-> 502, ctype |-> "application/json",
                            x_request_id |-> request_id],
                           [t |-> "json", data |-> [t |-> "obj", error |-> "backend_error"]] >>
          IN  IF client_gone
                THEN Len(wire) < 2 /\ wire = SubSeq(answer, 1, Len(wire))
                ELSE pc = "done" /\ wire = answer
    /\ (StreamedProxy /\ resp.status < 500) =>
          /\ ~client_gone => wire # <<>>
          /\ wire # <<>> => wire[1].status = 200

C11_Witness ==
    /\ pc = "done"
    /\ StreamedProxy
    /\ resp.status = 500
    /\ resp.lines # <<>>
    /\ ClientStatus = 502

\* C12: in non-streaming proxy mode, for an upstream status below 500 and an
\* upstream body that is valid JSON, the client is sent the upstream status
\* unchanged and the upstream body with its top-level id replaced by the
\* gateway's request id and nothing else changed.
C12_ProxiedResponseRelayed ==
    (IsChat(req) /\ Ended /\ ~client_gone /\ resp.k = "response"
        /\ resp.status < 500 /\ resp.body.t # "invalid") =>
            /\ pc = "done"
            /\ Len(wire) = 2
            /\ wire[1] = HeadEvent(resp.status, "application/json", request_id)
            /\ wire[2].t = "json"
            /\ wire[2].data.id = request_id
            /\ resp.body.t = "obj" =>
                  \A f \in DOMAIN resp.body \ {"id"} : wire[2].data[f] = resp.body[f]

\* A chat-completion body as the data model has it: a JSON object whose
\* messages are a non-empty list of objects with a string content.
ValidChatRequest(b) ==
    /\ b.t = "obj"
    /\ b.messages.t = "list"
    /\ b.messages.items # <<>>
    /\ \A i \in 1..Len(b.messages.items) :
          /\ b.messages.items[i].t = "obj"
          /\ b.messages.items[i].content.t = "str"

\* The content of the last message of `items` whose role is "user", as a
\* JSON value; the empty string when there is none.
LastUserContent(items) ==
    LET users == {i \in 1..Len(items) : items[i].t = "obj" /\ items[i].role = "user"}
    IN  IF users = {} THEN JStr(<<>>)
        ELSE items[CHOOSE i \in users : \A j \in users : j <= i].content

\* The current request was served by the echo responder, which has written
\* its response.
EchoResponded ==
    IsChat(req) /\ pc \in {"echo_sent", "done"} /\ backend_calls = 0 /\ prompt # JAbsent

\* C13: in echo mode without streaming, every valid non-empty messages array
\* is answered (as long as the client is there to be answered), and the
\* answer's content is "Echo: " followed by the content
\* of the last message whose role is "user" (the empty string when there is
\* none), with usage.total_tokens = usage.prompt_tokens +
\* usage.completion_tokens.
C13_EchoContentAndTotal ==
    /\ (IsChat(req) /\ ~Truthy(backend_url) /\ ValidChatRequest(req.body)
            /\ ~client_gone) =>
          /\ pc # "crashed"
          /\ pc = "done" => EchoResponded
    /\ (EchoResponded /\ ~StreamFlag(req.body)) =>
          LET last == LastUserContent(req.body.messages.items)
              data == wire[2].data
          IN  /\ Len(wire) = 2
              /\ wire[1].status = 200
              /\ last.t = "str"
              /\ data.content = <<"E", "c", "h", "o", ":", " ">> \o last.s
              /\ data.usage.total_tokens =
                    data.usage.prompt_tokens + data.usage.completion_tokens

\* Two messages: a user message, then a system message.
C13_Witness ==
    /\ EchoResponded
    /\ pc = "done"
    /\ ~StreamFlag(req.body)
    /\ Len(req.body.messages.items) = 2
    /\ req.body.messages.items[2].role = "system"
    /\ wire[2].data.content = <<"E", "c", "h", "o", ":", " ", "a", "\t", "b">>
    /\ wire[2].data.usage.total_tokens = 5

\* The whitespace-separated tokens of a text, read from the left.
RECURSIVE Words(_)
Words(text) ==
    IF text = <<>> THEN <<>>
    ELSE IF Head(text) \in Whitespace THEN Words(Tail(text))
    ELSE LET blanks == {i \in 1..Len(text) : text[i] \in Whitespace}
             n == IF blanks = {} THEN Len(text)
                  ELSE (CHOOSE i \in blanks : \A j \in blanks : i <= j) - 1
         IN  <<SubSeq(text, 1, n)>> \o Words(SubSeq(text, n + 1, Len(text)))

\* The usage count a backend body reports under `field`, 0 when absent.
ReportedTokens(body, field) ==
    IF body.usage.t = "absent" THEN 0
    ELSE IF body.usage[field].t = "absent" THEN 0
    ELSE body.usage[field].n

\* What a step adds to <<prompt_tokens_total, completion_tokens_total>>.
TokensAdded ==
    << metrics'.prompt_tokens_total - metrics.prompt_tokens_total,
       metrics'.completion_tokens_total - metrics.completion_tokens_total >>

\* Token accounting of one step, `isError` telling whether the step ends the
\* request with an error outcome: only the step that ends a chat-completion
\* request adds tokens; it adds nothing for an error outcome and for a
\* streamed backend response, the backend-reported usage for a non-streaming
\* proxied response, and the whitespace-token counts of the prompt and of the
\* echoed content for an echo response.
TokenAccounting(isError) ==
    IF ~(IsChat(req) /\ pc # "done" /\ pc' = "done")
      THEN pc' # "crashed" => TokensAdded = <<0, 0>>
    ELSE IF isError THEN TokensAdded = <<0, 0>>
    ELSE IF resp'.k = "stream" THEN TokensAdded = <<0, 0>>
    ELSE IF resp'.k = "response"
      THEN TokensAdded = << ReportedTokens(resp'.body, "prompt_tokens"),
                            ReportedTokens(resp'.body, "completion_tokens") >>
    ELSE LET last == LastUserContent(req.body.messages.items).s
         IN  TokensAdded = << Len(Words(last)),
                              Len(Words(<<"E", "c", "h", "o", ":", " ">> \o last)) >>

\* C14 as stated: every outcome with an error status (400, 502, 504) adds 0
\* to both token totals, a streamed backend response adds 0, a non-streaming
\* proxied response adds the backend-reported usage (0 for each count that is
\* absent), an echo response adds the whitespace-token counts of the prompt
\* and of the echoed content.
C14_TokenAccounting ==
    [][TokenAccounting(ErrorResponses' # {} \/ ClientStatus' \in {400, 502, 504})]_vars

\* C14 as amended: the outcomes that add 0 are the streamed backend responses
\* and the errors the gateway itself produces (400 invalid_json and
\* invalid_messages, 502, 504); a non-streaming response relayed from the
\* backend adds the backend-reported usage whatever its status below 500,
\* 400 included; an echo response adds the whitespace-token counts.
C14_TokenAccountingOfGatewayErrors ==
    [][TokenAccounting(ErrorResponses' # {})]_vars

\* A backend reply with status 400 and usage 3/2 was relayed and counted.
C14_Witness ==
    /\ pc = "done"
    /\ IsChat(req)
    /\ resp.k = "response"
    /\ resp.status = 400
    /\ ClientStatus = 400
    /\ completed = 0
    /\ metrics.prompt_tokens_total = 3
    /\ metrics.completion_tokens_total = 2

\* C15: request_count, error_count, prompt_tokens_total and
\* completion_tokens_total never decrease and are never reset, over every
\* sequence of requests and for every backend reply, whatever usage values
\* the backend reports.
C15_CountersNeverDecrease ==
    [][ /\ metrics'.request_count >= metrics.request_count
        /\ metrics'.error_count >= metrics.error_count
        /\ metrics'.prompt_tokens_total >= metrics.prompt_tokens_total
        /\ metrics'.completion_tokens_total >= metrics.completion_tokens_total ]_vars

\* The sum of the field `f` of the clients of a finite set.
RECURSIVE SumOver(_, _)
SumOver(S, f) ==
    IF S = {} THEN 0
    ELSE LET c == CHOOSE x \in S : TRUE
         IN  clients[c][f] + SumOver(S \ {c}, f)

Served == {c \in Clients : clients[c].st = "served"}

\* The served requests whose handler updated the counters: all but the echo
\* requests whose client had gone, which end before the update.
Counted == {c \in Served : ~(clients[c].echo /\ clients[c].refused)}

\* C16: the updates of the shared counters are serialized: under every
\* interleaving of concurrent clients the server allows, no update is lost;
\* whenever no handler is running, request_count is the number of requests
\* whose handler updated the counters and each total is the sum of what
\* those requests contributed.
C16_NoLostUpdate ==
    (\A c \in Clients : clients[c].st \in {"new", "queued", "served"}) =>
        /\ metrics.request_count = Cardinality(Counted)
        /\ \A latency_ms \in LatencyValues :
              metrics.total_latency_ms = latency_ms * Cardinality(Counted)
        /\ metrics.prompt_tokens_total = SumOver(Counted, "prompt_tokens")
        /\ metrics.completion_tokens_total = SumOver(Counted, "completion_tokens")
        /\ metrics.error_count =
              Cardinality({c \in Counted : clients[c].status >= 400})

\* Every client has been served, and one of them connected while the handler
\* of another was running.
C16_Witness ==
    /\ Served = Clients
    /\ Counted = Clients
    /\ \E c \in Clients : clients[c].waited
    /\ \E c, d \in Clients : clients[c].status = 200 /\ clients[d].status = 502
    /\ metrics.request_count = MaxClients

\* C17: a streaming echo request is answered 200 with Content-Type
\* text/event-stream and a body of exactly two frames in this order: one
\* chunk frame carrying the request id and the echoed content, then the
\* [DONE] frame, with nothing after it.
C17_StreamingEchoFrames ==
    /\ (IsChat(req) /\ ~Truthy(backend_url) /\ pc = "done"
            /\ ValidChatRequest(req.body) /\ StreamFlag(req.body))
          => (EchoResponded /\ wire # <<>>)
    /\ (EchoResponded /\ StreamFlag(req.body)) =>
          LET last == LastUserContent(req.body.messages.items)
          IN  /\ Len(wire) = 3
              /\ wire[1].t = "head"
              /\ wire[1].status = 200
              /\ wire[1].ctype = "text/event-stream"
              /\ wire[2].t = "frame"
              /\ wire[2].payload.t = "chunk"
              /\ wire[2].payload.id = request_id
              /\ wire[2].payload.object = "chat.completion.chunk"
              /\ wire[2].payload.content = <<"E", "c", "h", "o", ":", " ">> \o last.s
              /\ wire[3] = [t |-> "frame", payload |-> [t |-> "done"]]

C17_Witness ==
    /\ EchoResponded
    /\ pc = "done"
    /\ StreamFlag(req.body)
    /\ request_id = "x-1"
    /\ Len(wire) = 3
    /\ wire[2].payload.content = <<"E", "c", "h", "o", ":", " ", "a", "\t", "b">>
    /\ wire[3].payload.t = "done"

\* The current request is GET /v1/models.
IsModels(r) == r.method = "GET" /\ r.path = "/v1/models"

\* C18: GET /v1/models is answered 200 with the static single-entry echo
\* listing and no backend call when no backend is configured; with a backend
\* it makes one backend call and relays the upstream status and body
\* verbatim, a timeout is answered 504 gateway_timeout and a connection
\* failure 502 backend_unavailable.
C18_ModelsListing ==
    (IsModels(req) /\ Ended /\ ~client_gone) =>
        /\ pc = "done"
        /\ Len(wire) = 2
        /\ IF ~Truthy(backend_url)
             THEN /\ backend_calls = 0
                  /\ wire[1].status = 200
                  /\ wire[2].data.object = "list"
                  /\ wire[2].data.data = <<"echo">>
             ELSE /\ backend_calls = 1
                  /\ resp.k = "timeout" =>
                        (wire[1].status = 504 /\ wire[2].data = ErrorBody("gateway_timeout"))
                  /\ resp.k = "request_error" =>
                        (wire[1].status = 502
                            /\ wire[2].data = ErrorBody("backend_unavailable"))
                  /\ resp.k = "response" =>
                        (wire[1].status = resp.status /\ wire[2].data = resp.body)

\* The routes the gateway serves.
KnownRoute(r) ==
    \/ r.method = "GET" /\ r.path \in {"/healthz", "/v1/models", "/metrics"}
    \/ r.method = "POST" /\ r.path = "/v1/chat/completions"

\* C19: a GET or POST request to any path other than /healthz, /v1/models
\* and /metrics (GET) and /v1/chat/completions (POST), a known path requested
\* with the other method included, is answered 404 with the body
\* {"error": "not_found"} and nothing else happens for it; a client that
\* has closed its connection is sent nothing but the head of that answer.
C19_UnknownRoutesNotFound ==
    (pc \notin {"idle", "recv"} /\ ~KnownRoute(req)) =>
        /\ backend_calls = 0
        /\ recorded = <<>>
        /\ Len(wire) <= 2
        /\ wire # <<>> =>
              /\ wire[1].t = "head"
              /\ wire[1].status = 404
              /\ wire[1].ctype = "application/json"
        /\ ~client_gone =>
              /\ pc = "done"
              /\ Len(wire) = 2
              /\ wire[2] = [t |-> "json", data |-> [t |-> "obj", error |-> "not_found"]]

\* A known path requested with the other method.
C19_Witness ==
    /\ pc = "done"
    /\ req.method = "POST"
    /\ req.path = "/healthz"
    /\ ClientStatus = 404
    /\ metrics.request_count = 1

\* The echo reply a body determines, its id left out: the content and the
\* usage, computed from the body alone.
EchoOf(body) ==
    LET last == LastUserContent(body.messages.items).s
        content == <<"E", "c", "h", "o", ":", " ">> \o last
        prompt_tokens == Len(Words(last))
        completion_tokens == Len(Words(content))
    IN  [content |-> content,
         usage |-> [prompt_tokens |-> prompt_tokens,
                    completion_tokens |-> completion_tokens,
                    total_tokens |-> prompt_tokens + completion_tokens]]

\* The request id the client supplied with the current request, if any.
SuppliedId ==
    IF req.headers.x_request_id # NoValue THEN req.headers.x_request_id
    ELSE req.headers.request_id

\* C20: echo mode is deterministic in the request body.  At every point of
\* every request history the echo reply is the one value the body determines
\* (EchoOf reads no state), so two requests with the same body get the same
\* content and usage; the replies differ at most in id, and the id is the
\* supplied request id when one is supplied.
C20_EchoDeterminedByBody ==
    EchoResponded =>
        LET e == EchoOf(req.body)
        IN  /\ SuppliedId # NoValue => request_id = SuppliedId
            /\ IF StreamFlag(req.body)
                 THEN wire[2].payload =
                        [t |-> "chunk", id |-> request_id,
                         object |-> "chat.completion.chunk", content |-> e.content]
                 ELSE wire[2].data =
                        [t |-> "obj", id |-> request_id, object |-> "chat.completion",
                         model |-> "echo", content |-> e.content, usage |-> e.usage]

\* The second of two echo requests for "a<TAB>b" has been answered: only two
\* such replies bring completion_tokens_total to 6.
C20_Witness ==
    /\ EchoResponded
    /\ pc = "done"
    /\ completed = 1
    /\ metrics.request_count = 2
    /\ metrics.completion_tokens_total = 6
    /\ ~StreamFlag(req.body)
    /\ request_id = "x-1"
    /\ wire[2].data.usage.total_tokens = 5

\* C21: for every chat-completion request the gateway writes exactly one
\* status line and header block: a request that is answered has exactly one,
\* and at no point are there two; in particular, once the 200 SSE head of a
\* streamed proxy response is sent, a backend timeout or connection failure
\* while the body is relayed writes no second (JSON 502/504) response.
C21_OneResponseHeadPerRequest ==
    IsChat(req) =>
        /\ Cardinality(Heads) <= 1
        /\ pc = "done" => Cardinality(Heads) = 1

\* C22: a GET /metrics that a client sends after it has received the
\* complete response of its chat-completion request observes that very
\* request: when the GET is answered the handler of the request has made its
\* update of request_count, and the request_count in the answer is at least
\* the value that update stored, so it counts this request and not only the
\* requests of others; the same for error_count when the request was
\* answered with an error status.  This holds also when the response was
\* written before the metrics were recorded (the echo path) and the GET was
\* sent before the handler had returned.
C22_MetricsObserveAnsweredRequests ==
    \A c \in Clients :
        clients[c].probe \in {"sent", "answered"} =>
            /\ clients[c].nth >= 1
            /\ clients[c].seen.request_count >= clients[c].nth
            /\ clients[c].status >= 400 =>
                  /\ clients[c].nth_error >= 1
                  /\ clients[c].seen.error_count >= clients[c].nth_error

\* An echo client sent its GET /metrics while its handler had not recorded
\* yet; its request was the second to be counted, after the failed request
\* of another client, and the answer counts both requests and the one error.
C22_Witness ==
    \E c \in Clients :
        /\ clients[c].echo
        /\ clients[c].early
        /\ clients[c].probe = "answered"
        /\ clients[c].nth = 2
        /\ clients[c].seen.request_count = 2
        /\ clients[c].seen.error_count = 1

\* C23: only POST /v1/chat/completions changes the metrics: no step of a GET
\* /healthz, GET /v1/models (static or proxied, answered or failed), GET
\* /metrics or 404 request changes request_count, error_count,
\* total_latency_ms or a token total; and no step of any request changes
\* backend_url.
C23_OnlyChatCompletionsChangeMetrics ==
    [][ /\ metrics' # metrics => (IsChat(req) /\ pc \notin {"idle", "done", "crashed"})
        /\ backend_url' # backend_url => (pc = "idle" /\ pc' = "idle") ]_vars

\* A proxied GET /v1/models that timed out, after one chat-completion request:
\* the counters still hold that one request only.
C23_Witness ==
    /\ pc = "done"
    /\ IsModels(req)
    /\ resp = Timeout
    /\ ClientStatus = 504
    /\ completed = 1
    /\ metrics.request_count = 1
    /\ metrics.error_count = 0

====
